---- MODULE Spec2Model ----
(***************************************************************************)
(* Model of the lightweight promise/future pair of                         *)
(* include/boost/spinlock/future.hpp: detail::lock_guard, basic_promise    *)
(* and basic_future.                                                       *)
(*                                                                         *)
(* Objects are identified by their address: a promise id or a future id.   *)
(* An id is "unborn" before its constructor ran, "building" while a move   *)
(* constructor or get_future() is constructing it, "live" afterwards,      *)
(* "dying" while its destructor runs and "dead" once it ran; addresses are *)
(* not reused, so a pointer to a dead object is a dangling pointer.        *)
(*                                                                         *)
(* Spec      every public operation runs to completion as one step (one    *)
(*           thread, or operations that do not overlap in time).           *)
(* ConcSpec  two threads run operations statement by statement, with the   *)
(*           spinlocks of lock_guard taken and released one at a time.     *)
(* FairSpec  ConcSpec with every thread that is inside an operation        *)
(*           scheduled fairly.                                             *)
(* BreakSpec, BreakFairSpec  a waiter against the promise's destructor.    *)
(* LifeSpec  two threads set, destroy, move and swap, statement by         *)
(*           statement, from one or two linked pairs.                      *)
(* HandSpec  set against the promise's move constructor and the future's   *)
(*           destructor.                                                   *)
(* SetSpec   ConcSpec from a linked pair and a second, plain promise.      *)
(* AllSpec   every operation of the two classes, statement by statement.   *)
(***************************************************************************)
EXTENDS Integers, FiniteSets, Sequences, TLC

\* ---------------------------------------------------------------- bounds
MaxPromises == 2
MaxFutures == 2
\* operations one thread starts in ConcSpec
MaxThreadOps == 2

PIds == 1..MaxPromises
FIds == 1..MaxFutures

\* nullptr, and the unlocked state of a spinlock<bool>
Null == 0
Unlocked == 0

Threads == {1, 2}
Values == {1, 2}

\* ------------------------------------------------- value_storage (monad.hpp)
Empty == [type |-> "empty", v |-> 0]
ValueOf(x) == [type |-> "value", v |-> x]
ErrorOf(x) == [type |-> "error", v |-> x]
ExceptionOf(x) == [type |-> "exception", v |-> x]
Pointer(f) == [type |-> "pointer", v |-> f]

\* what set_value/emplace_value, set_error and set_exception can store
Outcomes == {ValueOf(x) : x \in Values} \cup {ErrorOf(1), ExceptionOf(1)}

\* value_storage's move: the destination takes the contents and the source is
\* left holding nothing (no outcome, no link).
MovedTo(src) == src
MovedFrom(src) == Empty

\* basic_monad::is_ready / empty
is_ready(F, f) == F[f].storage.type # "empty"
empty(F, f) == F[f].storage.type = "empty"

\* ------------------------------------------------------------ lock_guard
\* a guard that reads the slot's pointer without looking at the slot's type
PromiseGuardF_IgnoresType(P, p) == P[p].storage.v

\* lock_guard(promise_type *p): the future the guard records beside p
PromiseGuardF(P, p) ==
    IF P[p].storage.type = "pointer" THEN P[p].storage.v ELSE Null

\* lock_guard(future_type *f): the promise the guard records beside f
FutureGuardP(F, f) == F[f].promise

\* ------------------------------------------- the guarded bodies of the operations
\* Each takes the heap (P: promises, F: futures), the object, what its guard
\* recorded (hf = h._f, hp = h._p) and returns the heap the body leaves.

\* the constructor without `_promise = nullptr` after taking a buffered outcome
FutureFromPromise_KeepsLink(P, F, p, nf) ==
    LET st == MovedTo(P[p].storage)
        P1 == [P EXCEPT ![p].storage = Empty]
        F1 == [F EXCEPT ![nf] = [alive |-> "live", storage |-> st,
                                 broken |-> FALSE, promise |-> p]]
    IN  IF ~empty(F1, nf)
        THEN [P |-> [P1 EXCEPT ![p].detached = TRUE], F |-> F1]
        ELSE [P |-> [P1 EXCEPT ![p].storage = Pointer(nf)], F |-> F1]

\* basic_future(promise_type *p), constructed at address nf
FutureFromPromise(P, F, p, nf) ==
    LET st == MovedTo(P[p].storage)
        P1 == [P EXCEPT ![p].storage = Empty]
        F1 == [F EXCEPT ![nf] = [alive |-> "live", storage |-> st,
                                 broken |-> FALSE, promise |-> p]]
    IN  IF ~empty(F1, nf)
        THEN [P |-> [P1 EXCEPT ![p].detached = TRUE],
              F |-> [F1 EXCEPT ![nf].promise = Null]]
        ELSE [P |-> [P1 EXCEPT ![p].storage = Pointer(nf)], F |-> F1]

\* basic_promise::get_future, between the guard's construction and h.unlock()
GetFutureBody(P, F, p, hf, nf) ==
    IF hf # Null \/ P[p].detached
    THEN [P |-> P, F |-> F, res |-> "future_already_retrieved"]
    ELSE LET r == FutureFromPromise(P, F, p, nf)
         IN  [P |-> r.P, F |-> r.F, res |-> "ok"]

\* the setter without its `if(_detached)` test
SetBody_IgnoresDetached(P, F, p, hf, o) ==
    IF hf # Null
    THEN IF ~empty(F, hf)
         THEN [P |-> P, F |-> F, res |-> "already_set"]
         ELSE [P |-> [P EXCEPT ![p].storage = Empty, ![p].detached = TRUE],
               F |-> [F EXCEPT ![hf].storage = o, ![hf].promise = Null],
               res |-> "ok"]
    ELSE IF P[p].storage.type # "empty"
         THEN [P |-> P, F |-> F, res |-> "already_set"]
         ELSE [P |-> [P EXCEPT ![p].storage = o], F |-> F, res |-> "ok"]

\* the setter without `h._f->_promise = nullptr`
SetBody_KeepsLink(P, F, p, hf, o) ==
    IF P[p].detached
    THEN [P |-> P, F |-> F, res |-> "already_set"]
    ELSE IF hf # Null
    THEN IF ~empty(F, hf)
         THEN [P |-> P, F |-> F, res |-> "already_set"]
         ELSE [P |-> [P EXCEPT ![p].storage = Empty, ![p].detached = TRUE],
               F |-> [F EXCEPT ![hf].storage = o],
               res |-> "ok"]
    ELSE IF P[p].storage.type # "empty"
         THEN [P |-> P, F |-> F, res |-> "already_set"]
         ELSE [P |-> [P EXCEPT ![p].storage = o], F |-> F, res |-> "ok"]

\* the setter storing into its own slot before it tests the slot
SetBody_StoresFirst(P, F, p, hf, o) ==
    IF P[p].detached
    THEN [P |-> P, F |-> F, res |-> "already_set"]
    ELSE IF hf # Null
    THEN IF ~empty(F, hf)
         THEN [P |-> P, F |-> F, res |-> "already_set"]
         ELSE [P |-> [P EXCEPT ![p].storage = Empty, ![p].detached = TRUE],
               F |-> [F EXCEPT ![hf].storage = o, ![hf].promise = Null],
               res |-> "ok"]
    ELSE [P |-> [P EXCEPT ![p].storage = o], F |-> F,
          res |-> IF P[p].storage.type # "empty" THEN "already_set" ELSE "ok"]

\* a setter that neither tests for an earlier outcome nor gives up its slot
SetBody_Overwrites(P, F, p, hf, o) ==
    IF hf # Null
    THEN [P |-> P, F |-> [F EXCEPT ![hf].storage = o, ![hf].promise = Null],
          res |-> "ok"]
    ELSE [P |-> [P EXCEPT ![p].storage = o], F |-> F, res |-> "ok"]

\* set_value / emplace_value / set_error / set_exception storing outcome o
SetBody(P, F, p, hf, o) ==
    IF P[p].detached
    THEN [P |-> P, F |-> F, res |-> "already_set"]
    ELSE IF hf # Null
    THEN IF ~empty(F, hf)
         THEN [P |-> P, F |-> F, res |-> "already_set"]
         ELSE [P |-> [P EXCEPT ![p].storage = Empty, ![p].detached = TRUE],
               F |-> [F EXCEPT ![hf].storage = o, ![hf].promise = Null],
               res |-> "ok"]
    ELSE IF P[p].storage.type # "empty"
         THEN [P |-> P, F |-> F, res |-> "already_set"]
         ELSE [P |-> [P EXCEPT ![p].storage = o], F |-> F, res |-> "ok"]

\* basic_promise(basic_promise &&o), constructed at address q; det is the
\* o._detached the member initialiser read before the guard was taken
MovePromiseBody(P, F, o, q, hf, det) ==
    [P |-> [P EXCEPT ![q] = [alive |-> "live", storage |-> MovedTo(P[o].storage),
                             detached |-> det],
                     ![o].storage = MovedFrom(P[o].storage)],
     F |-> IF hf # Null THEN [F EXCEPT ![hf].promise = q] ELSE F]

\* the destructor without `h._f->_promise = nullptr`
DestroyPromiseBody_KeepsBackPointer(P, F, p, hf) ==
    [P |-> [P EXCEPT ![p].storage = Empty],
     F |-> IF hf # Null
           THEN [F EXCEPT ![hf].broken = IF is_ready(F, hf) THEN @ ELSE TRUE]
           ELSE F]

\* ~basic_promise, inside if(!_detached)
DestroyPromiseBody(P, F, p, hf) ==
    [P |-> [P EXCEPT ![p].storage = Empty],
     F |-> IF hf # Null
           THEN [F EXCEPT ![hf].broken = IF is_ready(F, hf) THEN @ ELSE TRUE,
                          ![hf].promise = Null]
           ELSE F]

\* basic_promise::swap, with f1 = h1._f and f2 = h2._f
SwapPromiseBody(P, F, p, o, f1, f2) ==
    LET Fa == IF f1 # Null THEN [F EXCEPT ![f1].promise = o] ELSE F
        Fb == IF f2 # Null THEN [Fa EXCEPT ![f2].promise = p] ELSE Fa
    IN  [P |-> [P EXCEPT ![p].storage = P[o].storage, ![o].storage = P[p].storage],
         F |-> Fb]

\* the move constructor without `h._p->_storage.pointer_ = this`
MoveFutureBody_NoRepoint(P, F, o, g, hp, brk) ==
    [P |-> P,
     F |-> [F EXCEPT ![g] = [alive |-> "live", storage |-> MovedTo(F[o].storage),
                             broken |-> brk, promise |-> F[o].promise],
                     ![o].storage = MovedFrom(F[o].storage),
                     ![o].promise = Null]]

\* basic_future(basic_future &&o), constructed at address g; brk is the
\* o._broken_promise the member initialiser read before the guard was taken
MoveFutureBody(P, F, o, g, hp, brk) ==
    LET linked == F[o].promise # Null
        F1 == [F EXCEPT ![g] = [alive |-> "live", storage |-> MovedTo(F[o].storage),
                                broken |-> brk,
                                promise |-> IF linked THEN F[o].promise ELSE Null],
                        ![o].storage = MovedFrom(F[o].storage),
                        ![o].promise = Null]
    IN  [P |-> IF linked /\ hp # Null THEN [P EXCEPT ![hp].storage.v = g] ELSE P,
         F |-> F1]

\* the destructor without `h._p->_storage.clear()`
DestroyFutureBody_KeepsSlot(P, F, f, hp) ==
    [P |-> IF hp # Null THEN [P EXCEPT ![hp].detached = TRUE] ELSE P,
     F |-> [F EXCEPT ![f].storage = Empty]]

\* the destructor without `h._p->_detached = true`
DestroyFutureBody_KeepsPromise(P, F, f, hp) ==
    [P |-> IF hp # Null THEN [P EXCEPT ![hp].storage = Empty] ELSE P,
     F |-> [F EXCEPT ![f].storage = Empty]]

\* ~basic_future, inside if(valid())
DestroyFutureBody(P, F, f, hp) ==
    [P |-> IF hp # Null
           THEN [P EXCEPT ![hp].storage = Empty, ![hp].detached = TRUE]
           ELSE P,
     F |-> [F EXCEPT ![f].storage = Empty]]

\* basic_future::swap, with p1 = h1._p and p2 = h2._p
SwapFutureBody(P, F, f, o, p1, p2) ==
    LET Pa == IF p1 # Null THEN [P EXCEPT ![p1].storage.v = o] ELSE P
        Pb == IF p2 # Null THEN [Pa EXCEPT ![p2].storage.v = f] ELSE Pa
    IN  [P |-> Pb,
         F |-> [F EXCEPT ![f].storage = F[o].storage, ![o].storage = F[f].storage,
                         ![f].broken = F[o].broken, ![o].broken = F[f].broken,
                         ![f].promise = F[o].promise, ![o].promise = F[f].promise]]

\* basic_future::valid
valid(F, f) == F[f].promise # Null \/ is_ready(F, f) \/ F[f].broken

\* basic_future::_check_validity: the error it throws, or "ok"
check_validity(F, f) ==
    IF F[f].broken THEN "broken_promise"
    ELSE IF ~valid(F, f) THEN "no_state"
    ELSE "ok"

\* basic_future::share: the error its _check_validity() throws, or "ok" when
\* the future is handed to the policy's _share
share(F, f) == check_validity(F, f)

\* the query without `|| _detached`
has_future_SlotOnly(P, p) == P[p].storage.type = "pointer"

\* basic_promise::has_future
has_future(P, p) == P[p].storage.type = "pointer" \/ P[p].detached

VARIABLES promise, future, plock, flock, thr, last, status, gotten, isset, anyset,
          plain

vars == <<promise, future, plock, flock, thr, last, status, gotten, isset, anyset,
          plain>>

UnbornPromise == [alive |-> "unborn", storage |-> Empty, detached |-> FALSE]
UnbornFuture == [alive |-> "unborn", storage |-> Empty, broken |-> FALSE, promise |-> Null]
\* a destroyed object: its memory is not read again (see Stop)
DeadPromise == [alive |-> "dead", storage |-> Empty, detached |-> FALSE]
DeadFuture == [alive |-> "dead", storage |-> Empty, broken |-> FALSE, promise |-> Null]

LiveP(p) == promise[p].alive = "live"
LiveF(f) == future[f].alive = "live"
LivePromises == {p \in PIds : LiveP(p)}
LiveFutures == {f \in FIds : LiveF(f)}

\* the address the next constructed object gets
HasFreshP == \E p \in PIds : promise[p].alive = "unborn"
HasFreshF == \E f \in FIds : future[f].alive = "unborn"
FreshP == CHOOSE p \in PIds : promise[p].alive = "unborn" /\ \A q \in PIds : q < p => promise[q].alive # "unborn"
FreshF == CHOOSE f \in FIds : future[f].alive = "unborn" /\ \A g \in FIds : g < f => future[g].alive # "unborn"

\* ------------------------------------------------------------------ state
\* last: the operation that ran last.  a is the object it was called on (the
\* source for a move construction), b the other object (the future created or
\* linked, the destination of a move, the argument of swap / operator=), res
\* its result: "ok" or the error thrown.
Op(op, a, b, res) == [op |-> op, a |-> a, b |-> b, res |-> res]

\* gotten[p]: get_future() has succeeded on promise object p, and p has not
\* been swapped, moved from or move-assigned since.
\* isset[p]: a set_* has succeeded on promise object p, and p has not been
\* swapped, moved from or move-assigned since.
\* anyset: a set_* has succeeded on some promise.
\* plain[p]: promise object p was default-constructed and since then nothing but
\* set_* has been called on it.
Forget(g, S) == [x \in PIds |-> IF x \in S THEN FALSE ELSE g[x]]

\* A thread: the operation it runs (op, on obj, with outcome arg), where it is
\* in it (pc), what its lock_guard recorded (gp = h._p, gf = h._f), whether
\* wait() is past _check_validity (loop), whether the guard is being released
\* for good (fin), the operation's result (res) and how many it started (n).
\* For swap and move construction: the other object (obj2: the argument of
\* swap, the address constructed at), what swap's second guard recorded
\* (gp2, gf2) and the flag a member initialiser read before the guard (flag).
IdleThread == [pc |-> "idle", op |-> "none", obj |-> Null, arg |-> Empty,
               gp |-> Null, gf |-> Null, loop |-> FALSE, fin |-> FALSE,
               res |-> "none", n |-> 0,
               obj2 |-> Null, gp2 |-> Null, gf2 |-> Null, flag |-> FALSE]
NoThreads == [t \in Threads |-> IdleThread]

Init ==
    /\ promise = [p \in PIds |-> UnbornPromise]
    /\ future = [f \in FIds |-> UnbornFuture]
    /\ plock = [p \in PIds |-> Unlocked]
    /\ flock = [f \in FIds |-> Unlocked]
    /\ thr = NoThreads
    /\ last = Op("none", Null, Null, "ok")
    /\ status = "run"
    /\ gotten = [p \in PIds |-> FALSE]
    /\ isset = [p \in PIds |-> FALSE]
    /\ anyset = FALSE
    /\ plain = [p \in PIds |-> FALSE]

\* A guard that would lock a destroyed object (a dangling slot or back-pointer)
DanglingFromP(P, F, p) == PromiseGuardF(P, p) # Null /\ F[PromiseGuardF(P, p)].alive # "live"
DanglingFromF(P, F, f) == FutureGuardP(F, f) # Null /\ P[FutureGuardP(F, f)].alive # "live"

\* The operation cannot continue: it touched a destroyed object ("ub") or waits
\* for a lock its own thread holds ("hang").
Stop(op, a, b, why) ==
    /\ status' = why
    /\ last' = Op(op, a, b, why)
    /\ UNCHANGED <<promise, future, plock, flock, thr, gotten, isset, anyset, plain>>

Quiet == UNCHANGED <<plock, flock, thr, status>>
SameSets == UNCHANGED <<isset, anyset>>
SamePlain == UNCHANGED plain

\* ------------------------------------------- operations, each as one step
\* basic_promise()
NewPromise ==
    /\ status = "run" /\ HasFreshP
    /\ promise' = [promise EXCEPT ![FreshP] =
                      [alive |-> "live", storage |-> Empty, detached |-> FALSE]]
    /\ last' = Op("promise", FreshP, Null, "ok")
    /\ plain' = [plain EXCEPT ![FreshP] = TRUE]
    /\ UNCHANGED <<future, gotten, isset, anyset>> /\ Quiet

\* basic_future()
NewFuture ==
    /\ status = "run" /\ HasFreshF
    /\ future' = [future EXCEPT ![FreshF] =
                     [alive |-> "live", storage |-> Empty, broken |-> FALSE,
                      promise |-> Null]]
    /\ last' = Op("future", FreshF, Null, "ok")
    /\ UNCHANGED <<promise, gotten, isset, anyset>> /\ SamePlain /\ Quiet

\* p.get_future()
GetFuture(p) ==
    /\ status = "run" /\ LiveP(p)
    /\ LET hf == PromiseGuardF(promise, p)
       IN  IF DanglingFromP(promise, future, p)
           THEN Stop("get_future", p, hf, "ub")
           ELSE /\ hf # Null \/ promise[p].detached \/ HasFreshF
                /\ LET nf == IF hf # Null \/ promise[p].detached THEN Null ELSE FreshF
                       r == GetFutureBody(promise, future, p, hf, nf)
                   IN  /\ promise' = r.P
                       /\ future' = r.F
                       /\ last' = Op("get_future", p, nf, r.res)
                       /\ gotten' = IF r.res = "ok" THEN [gotten EXCEPT ![p] = TRUE]
                                    ELSE gotten
                /\ plain' = Forget(plain, {p})
                /\ SameSets /\ Quiet

\* p.set_value(v) and p.emplace_value(v) for o = ValueOf(v), p.set_error(e)
\* for o = ErrorOf(e), p.set_exception(e) for o = ExceptionOf(e): one body,
\* BOOST_SPINLOCK_FUTURE_IMPL, recorded in last as "set"
Set(p, o) ==
    /\ status = "run" /\ LiveP(p)
    /\ LET hf == PromiseGuardF(promise, p)
       IN  IF DanglingFromP(promise, future, p)
           THEN Stop("set", p, hf, "ub")
           ELSE LET r == SetBody(promise, future, p, hf, o)
                IN  /\ promise' = r.P
                    /\ future' = r.F
                    /\ last' = Op("set", p, hf, r.res)
                    /\ isset' = IF r.res = "ok" THEN [isset EXCEPT ![p] = TRUE]
                                ELSE isset
                    /\ anyset' = (anyset \/ r.res = "ok")
                    /\ UNCHANGED gotten /\ SamePlain /\ Quiet

\* basic_promise q(std::move(o))
MovePromise(o) ==
    /\ status = "run" /\ LiveP(o) /\ HasFreshP
    /\ LET hf == PromiseGuardF(promise, o)
           q == FreshP
       IN  IF DanglingFromP(promise, future, o)
           THEN Stop("move_promise", o, q, "ub")
           ELSE LET r == MovePromiseBody(promise, future, o, q, hf, promise[o].detached)
                IN  /\ promise' = r.P
                    /\ future' = r.F
                    /\ last' = Op("move_promise", o, q, "ok")
                    /\ gotten' = Forget(gotten, {o, q})
                    /\ isset' = Forget(isset, {o, q})
                    /\ plain' = Forget(plain, {o, q})
                    /\ UNCHANGED anyset
                    /\ Quiet

\* the heap ~basic_promise leaves, the object itself still counted live
AfterPromiseDtor(P, F, p) ==
    IF P[p].detached THEN [P |-> P, F |-> F]
    ELSE DestroyPromiseBody(P, F, p, PromiseGuardF(P, p))

\* p.~basic_promise()
DestroyPromise(p) ==
    /\ status = "run" /\ LiveP(p)
    /\ LET hf == IF promise[p].detached THEN Null ELSE PromiseGuardF(promise, p)
       IN  IF ~promise[p].detached /\ DanglingFromP(promise, future, p)
           THEN Stop("destroy_promise", p, hf, "ub")
           ELSE LET r == AfterPromiseDtor(promise, future, p)
                IN  /\ promise' = [r.P EXCEPT ![p] = DeadPromise]
                    /\ future' = r.F
                    /\ last' = Op("destroy_promise", p, hf, "ok")
                    /\ gotten' = Forget(gotten, {p})
                    /\ isset' = Forget(isset, {p})
                    /\ plain' = Forget(plain, {p})
                    /\ UNCHANGED anyset
                    /\ Quiet

\* p = std::move(o): this->~basic_promise(); new (this) basic_promise(std::move(o))
AssignPromise(p, o) ==
    /\ status = "run" /\ LiveP(p) /\ LiveP(o) /\ p # o
    /\ IF ~promise[p].detached /\ DanglingFromP(promise, future, p)
       THEN Stop("assign_promise", p, o, "ub")
       ELSE LET d == AfterPromiseDtor(promise, future, p)
            IN  IF DanglingFromP(d.P, d.F, o)
                THEN Stop("assign_promise", p, o, "ub")
                ELSE LET r == MovePromiseBody(d.P, d.F, o, p,
                                              PromiseGuardF(d.P, o), d.P[o].detached)
                     IN  /\ promise' = r.P
                         /\ future' = r.F
                         /\ last' = Op("assign_promise", p, o, "ok")
                         /\ gotten' = Forget(gotten, {p, o})
                         /\ isset' = Forget(isset, {p, o})
                         /\ plain' = Forget(plain, {p, o})
                         /\ UNCHANGED anyset
                         /\ Quiet

\* p.swap(o): h1(this) is held while h2(&o) is constructed
SwapPromise(p, o) ==
    /\ status = "run" /\ LiveP(p) /\ LiveP(o)
    /\ LET f1 == PromiseGuardF(promise, p)
           f2 == PromiseGuardF(promise, o)
       IN  IF DanglingFromP(promise, future, p) \/ (p # o /\ DanglingFromP(promise, future, o))
           THEN Stop("swap_promise", p, o, "ub")
           ELSE IF p = o \/ (f2 # Null /\ f2 = f1)
           THEN Stop("swap_promise", p, o, "hang")
           ELSE LET r == SwapPromiseBody(promise, future, p, o, f1, f2)
                IN  /\ promise' = r.P
                    /\ future' = r.F
                    /\ last' = Op("swap_promise", p, o, "ok")
                    /\ gotten' = Forget(gotten, {p, o})
                    /\ isset' = Forget(isset, {p, o})
                    /\ plain' = Forget(plain, {p, o})
                    /\ UNCHANGED anyset
                    /\ Quiet

\* basic_future g(std::move(o))
MoveFuture(o) ==
    /\ status = "run" /\ LiveF(o) /\ HasFreshF
    /\ LET hp == FutureGuardP(future, o)
           g == FreshF
       IN  IF DanglingFromF(promise, future, o)
           THEN Stop("move_future", o, g, "ub")
           ELSE LET r == MoveFutureBody(promise, future, o, g, hp, future[o].broken)
                IN  /\ promise' = r.P
                    /\ future' = r.F
                    /\ last' = Op("move_future", o, g, "ok")
                    /\ UNCHANGED <<gotten, isset, anyset>> /\ SamePlain /\ Quiet

\* the heap ~basic_future leaves, the object itself still counted live
AfterFutureDtor(P, F, f) ==
    IF valid(F, f) THEN DestroyFutureBody(P, F, f, FutureGuardP(F, f))
    ELSE [P |-> P, F |-> F]

\* f.~basic_future()
DestroyFuture(f) ==
    /\ status = "run" /\ LiveF(f)
    /\ LET hp == FutureGuardP(future, f)
       IN  IF DanglingFromF(promise, future, f)
           THEN Stop("destroy_future", f, hp, "ub")
           ELSE LET r == AfterFutureDtor(promise, future, f)
                IN  /\ promise' = r.P
                    /\ future' = [r.F EXCEPT ![f] = DeadFuture]
                    /\ last' = Op("destroy_future", f, hp, "ok")
                    /\ UNCHANGED <<gotten, isset, anyset>> /\ SamePlain /\ Quiet

\* f = std::move(o): this->~basic_future(); new (this) basic_future(std::move(o))
AssignFuture(f, o) ==
    /\ status = "run" /\ LiveF(f) /\ LiveF(o) /\ f # o
    /\ IF DanglingFromF(promise, future, f)
       THEN Stop("assign_future", f, o, "ub")
       ELSE LET d == AfterFutureDtor(promise, future, f)
            IN  IF DanglingFromF(d.P, d.F, o)
                THEN Stop("assign_future", f, o, "ub")
                ELSE LET r == MoveFutureBody(d.P, d.F, o, f,
                                             FutureGuardP(d.F, o), d.F[o].broken)
                     IN  /\ promise' = r.P
                         /\ future' = r.F
                         /\ last' = Op("assign_future", f, o, "ok")
                         /\ UNCHANGED <<gotten, isset, anyset>> /\ SamePlain /\ Quiet

\* f.swap(o): h1(this) is held while h2(&o) is constructed
SwapFuture(f, o) ==
    /\ status = "run" /\ LiveF(f) /\ LiveF(o)
    /\ LET p1 == FutureGuardP(future, f)
           p2 == FutureGuardP(future, o)
       IN  IF DanglingFromF(promise, future, f) \/ (f # o /\ DanglingFromF(promise, future, o))
           THEN Stop("swap_future", f, o, "ub")
           ELSE IF f = o \/ (p2 # Null /\ p2 = p1)
           THEN Stop("swap_future", f, o, "hang")
           ELSE LET r == SwapFutureBody(promise, future, f, o, p1, p2)
                IN  /\ promise' = r.P
                    /\ future' = r.F
                    /\ last' = Op("swap_future", f, o, "ok")
                    /\ UNCHANGED <<gotten, isset, anyset>> /\ SamePlain /\ Quiet

\* What f.wait() does when no other thread runs: "ready" (returned without a
\* lock), the error _check_validity throws, or "spin" (it polls and does not
\* return until another thread completes the future).
WaitOutcome(F, f) ==
    IF is_ready(F, f) THEN "ready"
    ELSE IF check_validity(F, f) # "ok" THEN check_validity(F, f)
    ELSE "spin"

\* f.wait()
Wait(f) ==
    /\ status = "run" /\ LiveF(f)
    /\ IF ~is_ready(future, f) /\ DanglingFromF(promise, future, f)
       THEN Stop("wait", f, FutureGuardP(future, f), "ub")
       ELSE /\ last' = Op("wait", f, Null, WaitOutcome(future, f))
            /\ UNCHANGED <<promise, future, gotten, isset, anyset>> /\ SamePlain /\ Quiet

Next ==
    \/ NewPromise
    \/ NewFuture
    \/ \E p \in PIds : GetFuture(p)
    \/ \E p \in PIds, o \in Outcomes : Set(p, o)
    \/ \E p \in PIds : MovePromise(p)
    \/ \E p \in PIds : DestroyPromise(p)
    \/ \E p, o \in PIds : AssignPromise(p, o)
    \/ \E p, o \in PIds : SwapPromise(p, o)
    \/ \E f \in FIds : MoveFuture(f)
    \/ \E f \in FIds : DestroyFuture(f)
    \/ \E f, o \in FIds : AssignFuture(f, o)
    \/ \E f, o \in FIds : SwapFuture(f, o)
    \/ \E f \in FIds : Wait(f)

Spec == Init /\ [][Next]_vars

\* ------------------------------------- two threads, statement by statement
\* The promise and the future of a linked pair are used from two threads:
\* thread-local objects, get_future() done, no outcome yet.
ConcInit ==
    /\ promise = [p \in PIds |-> IF p = 1
                     THEN [alive |-> "live", storage |-> Pointer(1), detached |-> FALSE]
                     ELSE UnbornPromise]
    /\ future = [f \in FIds |-> IF f = 1
                    THEN [alive |-> "live", storage |-> Empty, broken |-> FALSE,
                          promise |-> 1]
                    ELSE UnbornFuture]
    /\ plock = [p \in PIds |-> Unlocked]
    /\ flock = [f \in FIds |-> Unlocked]
    /\ thr = NoThreads
    /\ last = Op("none", Null, Null, "ok")
    /\ status = "run"
    /\ gotten = [p \in PIds |-> p = 1]
    /\ isset = [p \in PIds |-> FALSE]
    /\ anyset = FALSE
    /\ plain = [p \in PIds |-> FALSE]

Heap == <<promise, future>>
Ghosts == <<last, status, gotten, isset, anyset, plain>>

\* operations whose guard is entered via a promise; the others enter via a future
ViaPromise(op) ==
    op \in {"guard_p", "set", "destroy_promise", "swap_promise", "move_promise",
            "get_future"}

CanStart(t) == thr[t].pc \in {"idle", "done"} /\ thr[t].n < MaxThreadOps

Begin(t, op, obj, arg, pc) ==
    thr' = [thr EXCEPT ![t] = [pc |-> pc, op |-> op, obj |-> obj, arg |-> arg,
                               gp |-> Null, gf |-> Null, loop |-> FALSE,
                               fin |-> FALSE, res |-> "none", n |-> thr[t].n + 1,
                               obj2 |-> Null, gp2 |-> Null, gf2 |-> Null,
                               flag |-> FALSE]]

\* { detail::lock_guard<promise_type, future_type> h(p); }
StartGuardP(t, p) ==
    /\ CanStart(t) /\ LiveP(p)
    /\ Begin(t, "guard_p", p, Empty, "lock")
    /\ UNCHANGED <<Heap, plock, flock, Ghosts>>

\* { detail::lock_guard<promise_type, future_type> h(f); }
StartGuardF(t, f) ==
    /\ CanStart(t) /\ LiveF(f)
    /\ Begin(t, "guard_f", f, Empty, "lock")
    /\ UNCHANGED <<Heap, plock, flock, Ghosts>>

\* p.set_value(v) / set_error(e) / set_exception(e)
StartSet(t, p, o) ==
    /\ CanStart(t) /\ LiveP(p)
    /\ Begin(t, "set", p, o, "lock")
    /\ UNCHANGED <<Heap, plock, flock, Ghosts>>

\* f.wait()
StartWait(t, f) ==
    /\ CanStart(t) /\ LiveF(f)
    /\ Begin(t, "wait", f, Empty, "fast")
    /\ UNCHANGED <<Heap, plock, flock, Ghosts>>

\* wait() without `if(is_ready()) return;`
WaitFast_AlwaysLocks(t) ==
    /\ thr[t].pc = "fast"
    /\ thr' = [thr EXCEPT ![t].pc = "lock"]
    /\ UNCHANGED <<Heap, plock, flock, Ghosts>>

\* wait(): if(is_ready()) return;  -- read without a lock
WaitFast(t) ==
    /\ thr[t].pc = "fast"
    /\ thr' = IF is_ready(future, thr[t].obj)
              THEN [thr EXCEPT ![t].pc = "done", ![t].res = "ok"]
              ELSE [thr EXCEPT ![t].pc = "lock"]
    /\ UNCHANGED <<Heap, plock, flock, Ghosts>>

\* lock_guard: p->_lock.lock() / f->_lock.lock(), which waits for the lock
LockFirst(t) ==
    /\ thr[t].pc = "lock"
    /\ IF ViaPromise(thr[t].op)
       THEN /\ plock[thr[t].obj] = Unlocked
            /\ plock' = [plock EXCEPT ![thr[t].obj] = t]
            /\ UNCHANGED flock
       ELSE /\ flock[thr[t].obj] = Unlocked
            /\ flock' = [flock EXCEPT ![thr[t].obj] = t]
            /\ UNCHANGED plock
    /\ thr' = [thr EXCEPT ![t].pc = "try"]
    /\ UNCHANGED <<Heap, Ghosts>>

\* where a completed guard construction continues: swap goes on to its
\* second guard, wait's loop to its test
AfterGuard(t) ==
    IF thr[t].op \in {"swap_promise", "swap_future"} THEN "lock2"
    ELSE IF thr[t].loop THEN "poll" ELSE "held"

\* try_lock() on the spinlock of a destroyed object reads freed memory: it
\* may find any value there, so it may fail as well as succeed
TryLockMayFail(lockword, alive) == lockword # Unlocked \/ alive = "dead"

\* lock_guard(promise_type *): the slot is looked at and, if it points at a
\* future, that future's lock is tried
TryPeerOfPromise(t) ==
    LET p == thr[t].obj
        f == PromiseGuardF(promise, p)
    IN  IF f = Null
        THEN /\ thr' = [thr EXCEPT ![t].gp = p, ![t].pc = AfterGuard(t)]
             /\ UNCHANGED flock
        ELSE \/ /\ flock[f] = Unlocked
                /\ flock' = [flock EXCEPT ![f] = t]
                /\ thr' = [thr EXCEPT ![t].gp = p, ![t].gf = f, ![t].pc = AfterGuard(t)]
             \/ /\ TryLockMayFail(flock[f], future[f].alive)
                /\ thr' = [thr EXCEPT ![t].pc = "retry"]
                /\ UNCHANGED flock

\* lock_guard(future_type *): the back-pointer is looked at and, if set, that
\* promise's lock is tried
TryPeerOfFuture(t) ==
    LET f == thr[t].obj
        p == FutureGuardP(future, f)
    IN  IF p = Null
        THEN /\ thr' = [thr EXCEPT ![t].gf = f, ![t].pc = AfterGuard(t)]
             /\ UNCHANGED plock
        ELSE \/ /\ plock[p] = Unlocked
                /\ plock' = [plock EXCEPT ![p] = t]
                /\ thr' = [thr EXCEPT ![t].gp = p, ![t].gf = f, ![t].pc = AfterGuard(t)]
             \/ /\ TryLockMayFail(plock[p], promise[p].alive)
                /\ thr' = [thr EXCEPT ![t].pc = "retry"]
                /\ UNCHANGED plock

\* a guard that waits for its second lock instead of trying it
TryPeer_Blocking(t) ==
    /\ thr[t].pc = "try"
    /\ IF ViaPromise(thr[t].op)
       THEN /\ PromiseGuardF(promise, thr[t].obj) # Null
               => flock[PromiseGuardF(promise, thr[t].obj)] = Unlocked
            /\ TryPeerOfPromise(t) /\ UNCHANGED plock
       ELSE /\ FutureGuardP(future, thr[t].obj) # Null
               => plock[FutureGuardP(future, thr[t].obj)] = Unlocked
            /\ TryPeerOfFuture(t) /\ UNCHANGED flock
    /\ UNCHANGED <<Heap, Ghosts>>

\* lock_guard: the first lock is held; the peer is looked up and its lock tried
TryPeer(t) ==
    /\ thr[t].pc = "try"
    /\ IF ViaPromise(thr[t].op)
       THEN TryPeerOfPromise(t) /\ UNCHANGED plock
       ELSE TryPeerOfFuture(t) /\ UNCHANGED flock
    /\ UNCHANGED <<Heap, Ghosts>>

\* lock_guard: the try_lock failed: p->_lock.unlock() / f->_lock.unlock(), again
Retry(t) ==
    /\ thr[t].pc = "retry"
    /\ IF ViaPromise(thr[t].op)
       THEN plock' = [plock EXCEPT ![thr[t].obj] = Unlocked] /\ UNCHANGED flock
       ELSE flock' = [flock EXCEPT ![thr[t].obj] = Unlocked] /\ UNCHANGED plock
    /\ thr' = [thr EXCEPT ![t].pc = "lock"]
    /\ UNCHANGED <<Heap, Ghosts>>

\* the guard goes out of scope: ~lock_guard() runs unlock()
Release(t, res) == [thr EXCEPT ![t].pc = "unlock_p", ![t].fin = TRUE, ![t].res = res]

\* the block holding only the guard ends
GuardHeld(t) ==
    /\ thr[t].pc = "held" /\ thr[t].op \in {"guard_p", "guard_f"}
    /\ thr' = Release(t, "ok")
    /\ UNCHANGED <<Heap, plock, flock, Ghosts>>

\* the body of BOOST_SPINLOCK_FUTURE_IMPL under the guard; a throw unwinds
\* through ~lock_guard()
SetHeld(t) ==
    /\ thr[t].pc = "held" /\ thr[t].op = "set"
    /\ LET r == SetBody(promise, future, thr[t].obj, thr[t].gf, thr[t].arg)
       IN  /\ promise' = r.P
           /\ future' = r.F
           /\ thr' = Release(t, r.res)
    /\ UNCHANGED <<plock, flock, Ghosts>>

\* wait(): _check_validity() under the first guard
WaitCheck(t) ==
    /\ thr[t].pc = "held" /\ thr[t].op = "wait"
    /\ thr' = IF check_validity(future, thr[t].obj) # "ok"
              THEN Release(t, check_validity(future, thr[t].obj))
              ELSE [thr EXCEPT ![t].pc = "poll"]
    /\ UNCHANGED <<Heap, plock, flock, Ghosts>>

\* wait(): while(!monad_type::is_ready()) { h.unlock(); yield(); h = lock_guard(this); }
\* The guard assigned to h is the one that goes on holding the locks.
WaitPoll(t) ==
    /\ thr[t].pc = "poll"
    /\ thr' = IF is_ready(future, thr[t].obj)
              THEN Release(t, "ok")
              ELSE [thr EXCEPT ![t].pc = "unlock_p", ![t].loop = TRUE]
    /\ UNCHANGED <<Heap, plock, flock, Ghosts>>

\* an unlock() that releases the promise's lock and keeps _p
UnlockP_KeepsPointer(t) ==
    /\ thr[t].pc = "unlock_p"
    /\ plock' = IF thr[t].gp # Null THEN [plock EXCEPT ![thr[t].gp] = Unlocked] ELSE plock
    /\ thr' = [thr EXCEPT ![t].pc = "unlock_f"]
    /\ UNCHANGED <<Heap, flock, Ghosts>>

\* lock_guard::unlock(): if(_p) { _p->_lock.unlock(); _p = nullptr; }
UnlockP(t) ==
    /\ thr[t].pc = "unlock_p"
    /\ plock' = IF thr[t].gp # Null THEN [plock EXCEPT ![thr[t].gp] = Unlocked] ELSE plock
    /\ thr' = [thr EXCEPT ![t].gp = Null, ![t].pc = "unlock_f"]
    /\ UNCHANGED <<Heap, flock, Ghosts>>

\* where unlock() continues: the operation ends with ~lock_guard(), wait()
\* constructs its next guard, and get_future()'s h.unlock() is followed by
\* ~lock_guard(), which runs unlock() once more
AfterUnlock(t) ==
    IF thr[t].fin THEN "done"
    ELSE IF thr[t].op = "get_future" THEN "unlock_p" ELSE "lock"

\* an unlock() that forgets the future's lock
UnlockF_LeavesLocked(t) ==
    /\ thr[t].pc = "unlock_f"
    /\ thr' = [thr EXCEPT ![t].gf = Null, ![t].pc = AfterUnlock(t),
                          ![t].fin = (thr[t].fin \/ thr[t].op = "get_future")]
    /\ UNCHANGED <<Heap, plock, flock, Ghosts>>

\* lock_guard::unlock(): if(_f) { _f->_lock.unlock(); _f = nullptr; }
UnlockF(t) ==
    /\ thr[t].pc = "unlock_f"
    /\ flock' = IF thr[t].gf # Null THEN [flock EXCEPT ![thr[t].gf] = Unlocked] ELSE flock
    /\ thr' = [thr EXCEPT ![t].gf = Null, ![t].pc = AfterUnlock(t),
                          ![t].fin = (thr[t].fin \/ thr[t].op = "get_future")]
    /\ UNCHANGED <<Heap, plock, Ghosts>>

\* the steps of an operation once started
Run(t) ==
    \/ WaitFast(t)
    \/ LockFirst(t)
    \/ TryPeer(t)
    \/ Retry(t)
    \/ GuardHeld(t)
    \/ SetHeld(t)
    \/ WaitCheck(t)
    \/ WaitPoll(t)
    \/ UnlockP(t)
    \/ UnlockF(t)

Start(t) ==
    \/ \E p \in PIds : StartGuardP(t, p)
    \/ \E f \in FIds : StartGuardF(t, f)
    \/ \E p \in PIds, o \in Outcomes : StartSet(t, p, o)
    \/ \E f \in FIds : StartWait(t, f)

ConcNext == \E t \in Threads : Start(t) \/ Run(t)

ConcSpec == ConcInit /\ [][ConcNext]_vars

\* Scheduling: a thread inside an operation that can take a step again and
\* again eventually takes one (every thread keeps being run, and a thread
\* spinning in lock() obtains a lock that is released again and again).  No
\* thread is obliged to start an operation.
FairSpec == ConcSpec /\ \A t \in Threads : SF_vars(Run(t))

\* ------------------------------ destruction, move and swap, statement by statement
\* another thread is inside a member function called on promise p itself
PromiseInUse(t, p) ==
    \E u \in Threads \ {t} :
        /\ thr[u].pc \notin {"idle", "done"}
        /\ \/ ViaPromise(thr[u].op) /\ thr[u].obj = p
           \/ thr[u].op = "swap_promise" /\ thr[u].obj2 = p

\* p.~basic_promise() begins: if(!_detached) is read without a lock.  No thread
\* destroys an object another thread is calling a member function on, and none
\* calls a member function on an object whose destructor has begun ("dying").
StartDestroyPromise(t, p) ==
    /\ CanStart(t) /\ LiveP(p) /\ ~PromiseInUse(t, p)
    /\ IF promise[p].detached
       THEN /\ promise' = [promise EXCEPT ![p] = DeadPromise]
            /\ thr' = [thr EXCEPT ![t] = [IdleThread EXCEPT !.pc = "done",
                                             !.op = "destroy_promise", !.obj = p,
                                             !.res = "ok", !.n = thr[t].n + 1]]
       ELSE /\ Begin(t, "destroy_promise", p, Empty, "lock")
            /\ promise' = [promise EXCEPT ![p].alive = "dying"]
    /\ UNCHANGED <<future, plock, flock, Ghosts>>

\* ~basic_promise under its guard; after it nothing but the guard's unlock()
\* touches the promise
DestroyHeld(t) ==
    /\ thr[t].pc = "held" /\ thr[t].op = "destroy_promise"
    /\ LET r == DestroyPromiseBody(promise, future, thr[t].obj, thr[t].gf)
       IN  /\ promise' = [r.P EXCEPT ![thr[t].obj] = DeadPromise]
           /\ future' = r.F
           /\ thr' = Release(t, "ok")
    /\ UNCHANGED <<plock, flock, Ghosts>>

\* One thread waits on the future while the other destroys the promise.
BreakRun(t) ==
    \/ WaitFast(t)
    \/ LockFirst(t)
    \/ TryPeer(t)
    \/ Retry(t)
    \/ DestroyHeld(t)
    \/ WaitCheck(t)
    \/ WaitPoll(t)
    \/ UnlockP(t)
    \/ UnlockF(t)

BreakStart(t) ==
    \/ \E f \in FIds : StartWait(t, f)
    \/ \E p \in PIds : StartDestroyPromise(t, p)

BreakNext == \E t \in Threads : BreakStart(t) \/ BreakRun(t)

BreakSpec == ConcInit /\ [][BreakNext]_vars

\* the scheduling of FairSpec
BreakFairSpec == BreakSpec /\ \A t \in Threads : SF_vars(BreakRun(t))

\* an operation on obj that involves a second object obj2 begins
Begin2(t, op, obj, obj2, flag) ==
    thr' = [thr EXCEPT ![t] = [IdleThread EXCEPT !.pc = "lock", !.op = op,
                                  !.obj = obj, !.obj2 = obj2, !.flag = flag,
                                  !.n = thr[t].n + 1]]

\* basic_future g(std::move(f)) begins: the base is default-constructed and the
\* member initialisers _broken_promise(o._broken_promise), _promise(nullptr)
\* run, before any lock is taken; g is not usable until the constructor ends
StartMoveFuture(t, f) ==
    /\ CanStart(t) /\ LiveF(f) /\ HasFreshF
    /\ future' = [future EXCEPT ![FreshF] =
                     [alive |-> "building", storage |-> Empty,
                      broken |-> future[f].broken, promise |-> Null]]
    /\ Begin2(t, "move_future", f, FreshF, future[f].broken)
    /\ UNCHANGED <<promise, plock, flock, Ghosts>>

\* basic_future(basic_future &&o) under its guard
MoveHeld(t) ==
    /\ thr[t].pc = "held" /\ thr[t].op = "move_future"
    /\ LET r == MoveFutureBody(promise, future, thr[t].obj, thr[t].obj2,
                               thr[t].gp, thr[t].flag)
       IN  /\ promise' = r.P
           /\ future' = r.F
           /\ thr' = Release(t, "ok")
    /\ UNCHANGED <<plock, flock, Ghosts>>

\* p.swap(o) begins
StartSwapPromise(t, p, o) ==
    /\ CanStart(t) /\ LiveP(p) /\ LiveP(o) /\ p # o
    /\ Begin2(t, "swap_promise", p, o, FALSE)
    /\ UNCHANGED <<Heap, plock, flock, Ghosts>>

\* f.swap(o) begins
StartSwapFuture(t, f, o) ==
    /\ CanStart(t) /\ LiveF(f) /\ LiveF(o) /\ f # o
    /\ Begin2(t, "swap_future", f, o, FALSE)
    /\ UNCHANGED <<Heap, plock, flock, Ghosts>>

\* swap: h2(&o) is constructed while h1 holds its locks: o._lock.lock(), which
\* waits for the lock
LockSecond(t) ==
    /\ thr[t].pc = "lock2"
    /\ IF ViaPromise(thr[t].op)
       THEN /\ plock[thr[t].obj2] = Unlocked
            /\ plock' = [plock EXCEPT ![thr[t].obj2] = t]
            /\ UNCHANGED flock
       ELSE /\ flock[thr[t].obj2] = Unlocked
            /\ flock' = [flock EXCEPT ![thr[t].obj2] = t]
            /\ UNCHANGED plock
    /\ thr' = [thr EXCEPT ![t].pc = "try2"]
    /\ UNCHANGED <<Heap, Ghosts>>

\* swap: h2 looks up o's peer and tries its lock
TrySecond(t) ==
    /\ thr[t].pc = "try2"
    /\ IF ViaPromise(thr[t].op)
       THEN LET o == thr[t].obj2
                f == PromiseGuardF(promise, o)
            IN  /\ IF f = Null
                   THEN /\ thr' = [thr EXCEPT ![t].gp2 = o, ![t].pc = "held"]
                        /\ UNCHANGED flock
                   ELSE \/ /\ flock[f] = Unlocked
                           /\ flock' = [flock EXCEPT ![f] = t]
                           /\ thr' = [thr EXCEPT ![t].gp2 = o, ![t].gf2 = f,
                                                 ![t].pc = "held"]
                        \/ /\ TryLockMayFail(flock[f], future[f].alive)
                           /\ thr' = [thr EXCEPT ![t].pc = "retry2"]
                           /\ UNCHANGED flock
                /\ UNCHANGED plock
       ELSE LET o == thr[t].obj2
                p == FutureGuardP(future, o)
            IN  /\ IF p = Null
                   THEN /\ thr' = [thr EXCEPT ![t].gf2 = o, ![t].pc = "held"]
                        /\ UNCHANGED plock
                   ELSE \/ /\ plock[p] = Unlocked
                           /\ plock' = [plock EXCEPT ![p] = t]
                           /\ thr' = [thr EXCEPT ![t].gp2 = p, ![t].gf2 = o,
                                                 ![t].pc = "held"]
                        \/ /\ TryLockMayFail(plock[p], promise[p].alive)
                           /\ thr' = [thr EXCEPT ![t].pc = "retry2"]
                           /\ UNCHANGED plock
                /\ UNCHANGED flock
    /\ UNCHANGED <<Heap, Ghosts>>

\* swap: h2's try_lock failed: o._lock.unlock(), again
RetrySecond(t) ==
    /\ thr[t].pc = "retry2"
    /\ IF ViaPromise(thr[t].op)
       THEN plock' = [plock EXCEPT ![thr[t].obj2] = Unlocked] /\ UNCHANGED flock
       ELSE flock' = [flock EXCEPT ![thr[t].obj2] = Unlocked] /\ UNCHANGED plock
    /\ thr' = [thr EXCEPT ![t].pc = "lock2"]
    /\ UNCHANGED <<Heap, Ghosts>>

\* the body of swap under both guards; h2 is released first
SwapHeld(t) ==
    /\ thr[t].pc = "held" /\ thr[t].op \in {"swap_promise", "swap_future"}
    /\ LET r == IF thr[t].op = "swap_promise"
                THEN SwapPromiseBody(promise, future, thr[t].obj, thr[t].obj2,
                                     thr[t].gf, thr[t].gf2)
                ELSE SwapFutureBody(promise, future, thr[t].obj, thr[t].obj2,
                                    thr[t].gp, thr[t].gp2)
       IN  /\ promise' = r.P
           /\ future' = r.F
    /\ thr' = [thr EXCEPT ![t].pc = "unlock2", ![t].fin = TRUE, ![t].res = "ok"]
    /\ UNCHANGED <<plock, flock, Ghosts>>

\* ~lock_guard of h2: unlock() releases its promise's and its future's lock
UnlockSecond(t) ==
    /\ thr[t].pc = "unlock2"
    /\ plock' = IF thr[t].gp2 # Null THEN [plock EXCEPT ![thr[t].gp2] = Unlocked]
                ELSE plock
    /\ flock' = IF thr[t].gf2 # Null THEN [flock EXCEPT ![thr[t].gf2] = Unlocked]
                ELSE flock
    /\ thr' = [thr EXCEPT ![t].gp2 = Null, ![t].gf2 = Null, ![t].pc = "unlock_p"]
    /\ UNCHANGED <<Heap, Ghosts>>

\* Two promises linked to two futures, used from two threads.
TwoPairs ==
    /\ promise = [p \in PIds |-> IF p \in {1, 2}
                     THEN [alive |-> "live", storage |-> Pointer(p), detached |-> FALSE]
                     ELSE UnbornPromise]
    /\ future = [f \in FIds |-> IF f \in {1, 2}
                    THEN [alive |-> "live", storage |-> Empty, broken |-> FALSE,
                          promise |-> f]
                    ELSE UnbornFuture]
    /\ plock = [p \in PIds |-> Unlocked]
    /\ flock = [f \in FIds |-> Unlocked]
    /\ thr = NoThreads
    /\ last = Op("none", Null, Null, "ok")
    /\ status = "run"
    /\ gotten = [p \in PIds |-> p \in {1, 2}]
    /\ isset = [p \in PIds |-> FALSE]
    /\ anyset = FALSE
    /\ plain = [p \in PIds |-> FALSE]

\* one linked pair with room to move the future, or two linked pairs
LifeInit == ConcInit \/ TwoPairs

LifeRun(t) ==
    \/ LockFirst(t)
    \/ TryPeer(t)
    \/ Retry(t)
    \/ SetHeld(t)
    \/ DestroyHeld(t)
    \/ MoveHeld(t)
    \/ LockSecond(t)
    \/ TrySecond(t)
    \/ RetrySecond(t)
    \/ SwapHeld(t)
    \/ UnlockSecond(t)
    \/ UnlockP(t)
    \/ UnlockF(t)

LifeStart(t) ==
    \/ \E p \in PIds, o \in Outcomes : StartSet(t, p, o)
    \/ \E p \in PIds : StartDestroyPromise(t, p)
    \/ \E f \in FIds : StartMoveFuture(t, f)
    \/ \E p, o \in PIds : StartSwapPromise(t, p, o)
    \/ \E f, o \in FIds : StartSwapFuture(t, f, o)

LifeNext == \E t \in Threads : LifeStart(t) \/ LifeRun(t)

\* Two threads set, destroy, move and swap, statement by statement.
LifeSpec == LifeInit /\ [][LifeNext]_vars

\* another thread is inside a member function called on future f itself
FutureInUse(t, f) ==
    \E u \in Threads \ {t} :
        /\ thr[u].pc \notin {"idle", "done"}
        /\ \/ ~ViaPromise(thr[u].op) /\ thr[u].obj = f
           \/ thr[u].op = "swap_future" /\ thr[u].obj2 = f

\* basic_promise q(std::move(p)) begins: the member initialiser
\* _detached(o._detached) runs before any lock is taken; q is not usable until
\* the constructor ends
StartMovePromise(t, p) ==
    /\ CanStart(t) /\ LiveP(p) /\ HasFreshP
    /\ promise' = [promise EXCEPT ![FreshP] =
                      [alive |-> "building", storage |-> Empty,
                       detached |-> promise[p].detached]]
    /\ Begin2(t, "move_promise", p, FreshP, promise[p].detached)
    /\ UNCHANGED <<future, plock, flock, Ghosts>>

\* basic_promise(basic_promise &&o) under its guard
MovePromiseHeld(t) ==
    /\ thr[t].pc = "held" /\ thr[t].op = "move_promise"
    /\ LET r == MovePromiseBody(promise, future, thr[t].obj, thr[t].obj2,
                                thr[t].gf, thr[t].flag)
       IN  /\ promise' = r.P
           /\ future' = r.F
           /\ thr' = Release(t, "ok")
    /\ UNCHANGED <<plock, flock, Ghosts>>

\* f.~basic_future() begins: if(valid()) is read without a lock.  No thread
\* destroys an object another thread is calling a member function on.
StartDestroyFuture(t, f) ==
    /\ CanStart(t) /\ LiveF(f) /\ ~FutureInUse(t, f)
    /\ IF ~valid(future, f)
       THEN /\ future' = [future EXCEPT ![f] = DeadFuture]
            /\ thr' = [thr EXCEPT ![t] = [IdleThread EXCEPT !.pc = "done",
                                             !.op = "destroy_future", !.obj = f,
                                             !.res = "ok", !.n = thr[t].n + 1]]
       ELSE /\ Begin(t, "destroy_future", f, Empty, "lock")
            /\ future' = [future EXCEPT ![f].alive = "dying"]
    /\ UNCHANGED <<promise, plock, flock, Ghosts>>

\* ~basic_future under its guard; after it nothing but the guard's unlock()
\* touches the future
DestroyFutureHeld(t) ==
    /\ thr[t].pc = "held" /\ thr[t].op = "destroy_future"
    /\ LET r == DestroyFutureBody(promise, future, thr[t].obj, thr[t].gp)
       IN  /\ promise' = r.P
           /\ future' = [r.F EXCEPT ![thr[t].obj] = DeadFuture]
           /\ thr' = Release(t, "ok")
    /\ UNCHANGED <<plock, flock, Ghosts>>

\* One thread moves, sets or destroys the promise while the other destroys
\* the future.
HandRun(t) ==
    \/ LockFirst(t)
    \/ TryPeer(t)
    \/ Retry(t)
    \/ SetHeld(t)
    \/ MovePromiseHeld(t)
    \/ DestroyFutureHeld(t)
    \/ UnlockP(t)
    \/ UnlockF(t)

HandStart(t) ==
    \/ \E p \in PIds, o \in Outcomes : StartSet(t, p, o)
    \/ \E p \in PIds : StartMovePromise(t, p)
    \/ \E f \in FIds : StartDestroyFuture(t, f)

HandNext == \E t \in Threads : HandStart(t) \/ HandRun(t)

HandSpec == ConcInit /\ [][HandNext]_vars

\* A linked pair and a second promise whose get_future() has not been called,
\* used from two threads.
SetInit ==
    /\ promise = [p \in PIds |-> IF p = 1
                     THEN [alive |-> "live", storage |-> Pointer(1), detached |-> FALSE]
                     ELSE IF p = 2
                     THEN [alive |-> "live", storage |-> Empty, detached |-> FALSE]
                     ELSE UnbornPromise]
    /\ future = [f \in FIds |-> IF f = 1
                    THEN [alive |-> "live", storage |-> Empty, broken |-> FALSE,
                          promise |-> 1]
                    ELSE UnbornFuture]
    /\ plock = [p \in PIds |-> Unlocked]
    /\ flock = [f \in FIds |-> Unlocked]
    /\ thr = NoThreads
    /\ last = Op("none", Null, Null, "ok")
    /\ status = "run"
    /\ gotten = [p \in PIds |-> p = 1]
    /\ isset = [p \in PIds |-> FALSE]
    /\ anyset = FALSE
    /\ plain = [p \in PIds |-> p = 2]

SetSpec == SetInit /\ [][ConcNext]_vars

\* p.get_future() begins; the caller provides the address the returned future
\* is constructed at
StartGetFuture(t, p) ==
    /\ CanStart(t) /\ LiveP(p) /\ HasFreshF
    /\ future' = [future EXCEPT ![FreshF].alive = "building"]
    /\ Begin2(t, "get_future", p, FreshF, FALSE)
    /\ UNCHANGED <<promise, plock, flock, Ghosts>>

\* get_future() under its guard: the throw unwinds through ~lock_guard();
\* otherwise the future is constructed and h.unlock() releases the guard, which
\* leaves ~lock_guard() nothing to release
GetFutureHeld(t) ==
    /\ thr[t].pc = "held" /\ thr[t].op = "get_future"
    /\ LET r == GetFutureBody(promise, future, thr[t].obj, thr[t].gf, thr[t].obj2)
       IN  /\ promise' = r.P
           /\ future' = IF r.res = "ok" THEN r.F
                        ELSE [r.F EXCEPT ![thr[t].obj2] = UnbornFuture]
           /\ thr' = IF r.res = "ok"
                     THEN [thr EXCEPT ![t].pc = "unlock_p", ![t].res = "ok"]
                     ELSE Release(t, r.res)
    /\ UNCHANGED <<plock, flock, Ghosts>>

\* A promise without a future and a default-constructed future.
LoneInit ==
    /\ promise = [p \in PIds |-> IF p = 1
                     THEN [alive |-> "live", storage |-> Empty, detached |-> FALSE]
                     ELSE UnbornPromise]
    /\ future = [f \in FIds |-> IF f = 1
                    THEN [alive |-> "live", storage |-> Empty, broken |-> FALSE,
                          promise |-> Null]
                    ELSE UnbornFuture]
    /\ plock = [p \in PIds |-> Unlocked]
    /\ flock = [f \in FIds |-> Unlocked]
    /\ thr = NoThreads
    /\ last = Op("none", Null, Null, "ok")
    /\ status = "run"
    /\ gotten = [p \in PIds |-> FALSE]
    /\ isset = [p \in PIds |-> FALSE]
    /\ anyset = FALSE
    /\ plain = [p \in PIds |-> p = 1]

AllInit == SetInit \/ LoneInit

AllRun(t) ==
    \/ WaitFast(t)
    \/ LockFirst(t)
    \/ TryPeer(t)
    \/ Retry(t)
    \/ GetFutureHeld(t)
    \/ SetHeld(t)
    \/ WaitCheck(t)
    \/ WaitPoll(t)
    \/ DestroyHeld(t)
    \/ DestroyFutureHeld(t)
    \/ MovePromiseHeld(t)
    \/ MoveHeld(t)
    \/ LockSecond(t)
    \/ TrySecond(t)
    \/ RetrySecond(t)
    \/ SwapHeld(t)
    \/ UnlockSecond(t)
    \/ UnlockP(t)
    \/ UnlockF(t)

AllStart(t) ==
    \/ \E p \in PIds : StartGetFuture(t, p)
    \/ \E p \in PIds, o \in Outcomes : StartSet(t, p, o)
    \/ \E f \in FIds : StartWait(t, f)
    \/ \E p \in PIds : StartDestroyPromise(t, p)
    \/ \E f \in FIds : StartDestroyFuture(t, f)
    \/ \E p \in PIds : StartMovePromise(t, p)
    \/ \E f \in FIds : StartMoveFuture(t, f)
    \/ \E p, o \in PIds : StartSwapPromise(t, p, o)
    \/ \E f, o \in FIds : StartSwapFuture(t, f, o)

AllNext == \E t \in Threads : AllStart(t) \/ AllRun(t)

\* Two threads run the public operations statement by statement.
AllSpec == AllInit /\ [][AllNext]_vars

\* ------------------------------------------------------------- properties
\* the future a promise's slot points at, or Null
Slot(p) == PromiseGuardF(promise, p)

\* promise p and future f are live and point at each other
Linked(p, f) == LiveP(p) /\ LiveF(f) /\ Slot(p) = f /\ future[f].promise = p

C3_DestroyBreaksPromise ==
    [][\A p \in PIds, f \in FIds :
          (Linked(p, f) /\ ~is_ready(future, f) /\ ~anyset
             /\ last'.op = "destroy_promise" /\ last'.a = p)
          => /\ future'[f].broken
             /\ future'[f].promise = Null
             /\ WaitOutcome(future', f) = "broken_promise"]_vars

\* a promise has been destroyed, no set_* ever having succeeded, and a live
\* future that is neither ready nor broken still points at it
C3_Unbroken ==
    /\ last.op = "destroy_promise" /\ ~anyset
    /\ \E f \in LiveFutures :
          /\ future[f].promise = last.a
          /\ ~future[f].broken /\ ~is_ready(future, f)

\* C4: get_future() on a promise that holds a buffered outcome (a set_*
\* succeeded on it before any future was requested) returns a future that is
\* ready, holds exactly that outcome and has no back-pointer; the promise is
\* left detached with an empty slot, and wait() on the future returns without
\* looping.
C4_BufferedOutcomeMoves ==
    [][\A p \in PIds :
          (isset[p] /\ promise[p].storage \in Outcomes
             /\ last'.op = "get_future" /\ last'.a = p)
          => /\ last'.res = "ok"
             /\ last'.b \in FIds
             /\ future[last'.b].alive = "unborn"
             /\ future'[last'.b].alive = "live"
             /\ future'[last'.b].storage = promise[p].storage
             /\ future'[last'.b].promise = Null
             /\ ~future'[last'.b].broken
             /\ promise'[p].detached
             /\ promise'[p].storage = Empty
             /\ WaitOutcome(future', last'.b) = "ready"]_vars

\* get_future() has just handed out a future holding the value set before
C4_Witness ==
    /\ last.op = "get_future" /\ last.res = "ok"
    /\ isset[last.a]
    /\ future[last.b].storage = ValueOf(2)
    /\ promise[last.a].detached

\* what p.set_value(v) would do in the state the step leaves
SetAfter(p, v) == SetBody(promise', future', p, PromiseGuardF(promise', p), ValueOf(v))

\* p.set_value(v), called in the state the step leaves, succeeds, writes v
\* into future f and severs the link between p and f
DeliversAfter(p, f, v) ==
    /\ SetAfter(p, v).res = "ok"
    /\ SetAfter(p, v).F[f].storage = ValueOf(v)
    /\ SetAfter(p, v).F[f].promise = Null
    /\ SetAfter(p, v).P[p].storage.type # "pointer"

\* the step move-constructs promise q from promise o: basic_promise q(std::move(o)),
\* or q = std::move(o), which destroys q and constructs it again from o in place
MoveConstructs(o, q) ==
    \/ last'.op = "move_promise" /\ last'.a = o /\ last'.b = q
    \/ last'.op = "assign_promise" /\ last'.a = q /\ last'.b = o

\* C6: move-constructing promise Q from a promise P linked to future F makes
\* F's back-pointer Q and Q's slot point at F, and a subsequent Q.set_value(v)
\* writes v into F and severs the link.
C6_MoveRelinks ==
    [][\A o, q \in PIds : \A f \in FIds :
          (Linked(o, f) /\ MoveConstructs(o, q))
          => /\ last'.res = "ok"
             /\ future'[f].promise = q
             /\ promise'[q].storage = Pointer(f)
             /\ \A v \in Values : DeliversAfter(q, f, v)]_vars

\* a promise has been constructed in place from a linked promise: it points at
\* the future, the future points back at it, and it is detached
C6_DetachedDestination ==
    /\ last.op = "assign_promise" /\ last.res = "ok"
    /\ Slot(last.a) # Null
    /\ Linked(last.a, Slot(last.a))
    /\ promise[last.a].detached

\* C7: after F1.swap(F2) with F1 linked to P1, and F2 linked to P2 or to no
\* promise, P1's slot points at F2 and F2's back-pointer is P1 (and likewise
\* P2 and F1), so a later set_value(v) on either promise delivers v to the
\* future it now points at.
C7_SwapRepoints ==
    [][\A f1, f2 \in FIds : \A p1 \in PIds :
          (/\ last'.op = "swap_future"
           /\ {last'.a, last'.b} = {f1, f2} /\ f1 # f2
           /\ LiveF(f2) /\ Linked(p1, f1)
           /\ \/ future[f2].promise = Null
              \/ \E p2 \in PIds : Linked(p2, f2))
          => /\ last'.res = "ok"
             /\ promise'[p1].storage = Pointer(f2)
             /\ future'[f2].promise = p1
             /\ future[f2].promise = Null => future'[f1].promise = Null
             /\ \A v \in Values : DeliversAfter(p1, f2, v)]_vars

\* two futures have been swapped and a detached promise points at one of them
C7_DetachedAfterSwap ==
    /\ last.op = "swap_future" /\ last.res = "ok"
    /\ \E p \in LivePromises :
          /\ Slot(p) \in {last.a, last.b}
          /\ Linked(p, Slot(p))
          /\ promise[p].detached

\* C8: between operations, a live promise's slot points at live future F
\* exactly when F's back-pointer points at that promise.
C8_LinkConsistent ==
    \A p \in LivePromises, f \in LiveFutures :
        (Slot(p) = f) <=> (future[f].promise = p)

\* a live future's back-pointer names a live promise whose slot is empty
C8_OneSidedLink ==
    \E p \in LivePromises, f \in LiveFutures :
        future[f].promise = p /\ promise[p].storage = Empty

\* C9: no live future's back-pointer names a destroyed promise and no live
\* promise's slot names a destroyed future.
C9_NoDangling ==
    /\ \A f \in LiveFutures : future[f].promise # Null => LiveP(future[f].promise)
    /\ \A p \in LivePromises : Slot(p) # Null => LiveF(Slot(p))

\* an operation has run into a destroyed object through a slot or back-pointer
C9_UseAfterDestroy == status = "ub"

\* thread t is inside operation op
Inside(t, op) == thr[t].op = op /\ thr[t].pc \notin {"idle", "done"}

\* thread t has finished operation op with result res
Finished(t, op, res) == thr[t].op = op /\ thr[t].pc = "done" /\ thr[t].res = res

\* thread t is constructing a lock guard
Constructing(t) == thr[t].pc \in {"lock", "try", "retry"}

\* the locks thread t holds
HeldBy(t) == {p \in PIds : plock[p] = t} \cup {f \in FIds : flock[f] = t}

\* C5 as stated: with one thread inside wait() on a future and another inside
\* set_value(v) on the promise linked to it, fair scheduling brings the
\* set_value to completion and the waiting thread out of wait() normally, the
\* future holding v. The two calls need not return in the same state: what is
\* reached is a state where neither call is running any more.
C5_SetUnblocksWaiter ==
    \A t \in Threads : \A u \in Threads \ {t} : \A v \in Values :
        (/\ Inside(t, "wait") /\ Inside(u, "set")
         /\ thr[u].arg = ValueOf(v)
         /\ Linked(thr[u].obj, 1) /\ thr[t].obj = 1)
        ~> (/\ ~Inside(t, "wait") /\ ~Inside(u, "set")
            /\ thr[t].op = "wait" => thr[t].res = "ok"
            /\ future[1].storage = ValueOf(v))

\* C5: a set_* that holds its guard on a promise linked to a future a thread
\* waits on stores its outcome in that future and completes, and from the
\* moment the future holds the outcome the waiting thread leaves wait()
\* normally under fair scheduling, the future still holding that outcome.
C5_DeliveryEndsWait ==
    /\ [][\A u \in Threads :
             (/\ Inside(u, "set") /\ thr[u].pc = "held" /\ thr'[u].pc # "held"
              /\ thr[u].gf # Null /\ empty(future, thr[u].gf))
             => /\ future'[thr[u].gf].storage = thr[u].arg
                /\ thr'[u].res = "ok"]_vars
    /\ \A u \in Threads :
          (Inside(u, "set") /\ thr[u].pc = "held") ~> (thr[u].pc = "done")
    /\ \A t \in Threads : \A f \in FIds : \A o \in Outcomes :
          (Inside(t, "wait") /\ thr[t].obj = f /\ future[f].storage = o)
          ~> (Finished(t, "wait", "ok") /\ future[f].storage = o)

\* a thread that polled in wait() has left it normally after the other
\* thread's set_value(2) completed, and the future holds 2
C5_Witness ==
    \E t \in Threads : \E u \in Threads \ {t} :
        /\ Finished(t, "wait", "ok") /\ thr[t].loop
        /\ Finished(u, "set", "ok") /\ thr[u].arg = ValueOf(2)
        /\ future[thr[t].obj].storage = ValueOf(2)

\* C10 as stated: with one thread constructing a guard via a promise and the
\* other constructing one via the linked future, fair scheduling brings each
\* construction to completion.
C10_BothGuardsComplete ==
    \A t \in Threads : \A u \in Threads \ {t} :
        (/\ thr[t].op = "guard_p" /\ Constructing(t)
         /\ thr[u].op = "guard_f" /\ Constructing(u)
         /\ Linked(thr[t].obj, thr[u].obj))
        ~> (~Constructing(t) /\ ~Constructing(u))

\* C10: the two threads are never both blocked: while a guard is under
\* construction some thread inside an operation can take a step, a thread
\* waiting in lock() holds no lock, and a thread whose try_lock failed holds
\* only the lock of its entry object, which it releases next.
C10_NeverBothBlocked ==
    /\ (\E t \in Threads : Constructing(t)) => \E t \in Threads : ENABLED Run(t)
    /\ \A t \in Threads : thr[t].pc = "lock" => HeldBy(t) = {}
    /\ \A t \in Threads : thr[t].pc \in {"try", "retry"} => Cardinality(HeldBy(t)) = 1

\* both constructions, one via the promise and one via the linked future, hold
\* their entry lock and have failed the try on the other's
C10_Witness ==
    \E t \in Threads : \E u \in Threads \ {t} :
        /\ thr[t].op = "guard_p" /\ thr[t].pc = "retry"
        /\ thr[u].op = "guard_f" /\ thr[u].pc = "retry"
        /\ Linked(thr[t].obj, thr[u].obj)

\* C13: after P.swap(Q) on two promises, P holds Q's former slot and detached
\* flag, Q holds P's former slot and detached flag, and each future that was
\* linked to one of them has its back-pointer at the promise whose slot now
\* points at it.
C13_SwapExchangesAll ==
    [][\A p, o \in PIds :
          (/\ p # o /\ LiveP(p) /\ LiveP(o)
           /\ last'.op = "swap_promise" /\ last'.a = p /\ last'.b = o
           /\ last'.res = "ok")
          => /\ promise'[p].storage = promise[o].storage
             /\ promise'[o].storage = promise[p].storage
             /\ promise'[p].detached = promise[o].detached
             /\ promise'[o].detached = promise[p].detached
             /\ \A f \in FIds : Linked(p, f) => future'[f].promise = o
             /\ \A f \in FIds : Linked(o, f) => future'[f].promise = p]_vars

\* two promises have been swapped and one of them is detached while its slot
\* points at a future
C13_DetachedStayed ==
    /\ last.op = "swap_promise" /\ last.res = "ok"
    /\ \E p \in {last.a, last.b} :
          LiveP(p) /\ promise[p].detached /\ promise[p].storage.type = "pointer"

\* promise p is detached with an empty slot: every set_* on it would fail with
\* already_set, get_future() with future_already_retrieved, and its destructor
\* would change nothing
Orphaned(P, F, p) ==
    /\ P[p].detached /\ P[p].storage = Empty
    /\ \A o \in Outcomes : SetBody(P, F, p, PromiseGuardF(P, p), o).res = "already_set"
    /\ GetFutureBody(P, F, p, PromiseGuardF(P, p), Null).res = "future_already_retrieved"
    /\ AfterPromiseDtor(P, F, p) = [P |-> P, F |-> F]

\* C14: destroying a future that is linked to promise P clears P's slot and
\* makes P detached; from then on, as long as P is left detached with an empty
\* slot, every set_* on P fails with already_set, every get_future() on P
\* fails with future_already_retrieved, neither changing anything, and
\* destroying P changes no other object.
C14_DestroyedFutureDetaches ==
    /\ [][\A p \in PIds, f \in FIds :
             (Linked(p, f) /\ last'.op = "destroy_future" /\ last'.a = f)
             => /\ last'.res = "ok"
                /\ promise'[p].alive = "live"
                /\ Orphaned(promise', future', p)]_vars
    /\ [][\A p \in PIds :
             (/\ LiveP(p) /\ promise[p].detached /\ promise[p].storage = Empty
              /\ last'.a = p)
             => /\ last'.op = "set" => last'.res = "already_set"
                /\ last'.op = "get_future" => last'.res = "future_already_retrieved"
                /\ last'.op \in {"set", "get_future"}
                     => promise' = promise /\ future' = future
                /\ last'.op = "destroy_promise"
                     => /\ future' = future
                        /\ \A q \in PIds \ {p} : promise'[q] = promise[q]]_vars

\* a set_* has just failed on a promise whose linked future was destroyed
\* without an outcome
C14_Witness ==
    /\ last.op = "set" /\ last.res = "already_set"
    /\ gotten[last.a] /\ ~anyset
    /\ promise[last.a].detached
    /\ LiveFutures = {}

\* wait() and share() on future f, in the state the step leaves, fail with
\* no_state, and f is not valid()
NoStateAfter(f) ==
    /\ WaitOutcome(future', f) = "no_state"
    /\ share(future', f) = "no_state"
    /\ ~valid(future', f)

\* C15: wait() and share() fail with no_state, and valid() is false, on a
\* default-constructed future and on a future that has just been moved from
\* by move construction or move assignment, whatever it held before.
C15_NoStateAfterMove ==
    [][/\ last'.op = "future" => NoStateAfter(last'.a)
       /\ (last'.op = "move_future" /\ last'.res = "ok") => NoStateAfter(last'.a)
       /\ (last'.op = "assign_future" /\ last'.res = "ok") => NoStateAfter(last'.b)]_vars

\* a future whose promise was destroyed without an outcome has been moved
\* from, and it is still valid(), its broken_promise flag still set
C15_BrokenSource ==
    /\ last.op = "move_future" /\ last.res = "ok"
    /\ future[last.a].broken /\ valid(future, last.a)
    /\ WaitOutcome(future, last.a) = "broken_promise"
    /\ future[last.b].broken

\* promise p, in the state the step leaves, has no link to a future and is
\* detached, so that set_* on it fails with already_set and get_future() with
\* future_already_retrieved
MovedFromAfter(p) ==
    /\ PromiseGuardF(promise', p) = Null
    /\ \A f \in FIds : future'[f].alive = "live" => future'[f].promise # p
    /\ promise'[p].detached
    /\ \A o \in Outcomes : SetBody(promise', future', p, Null, o).res = "already_set"
    /\ GetFutureBody(promise', future', p, Null, Null).res = "future_already_retrieved"

\* C16: after a promise has been moved from, by move construction or move
\* assignment of another promise from it, it has no link to any future and
\* its detached flag is set, so set_* on it fails with already_set and
\* get_future() on it fails with future_already_retrieved.
C16_MovedFromDetached ==
    [][/\ (last'.op = "move_promise" /\ last'.res = "ok") => MovedFromAfter(last'.a)
       /\ (last'.op = "assign_promise" /\ last'.res = "ok") => MovedFromAfter(last'.b)]_vars

\* a promise that was linked to a future has been moved from and is not
\* detached: its slot is empty and a set_* on it would succeed
C16_SourceStillUsable ==
    /\ last.op = "move_promise" /\ last.res = "ok"
    /\ Slot(last.b) # Null
    /\ ~promise[last.a].detached /\ promise[last.a].storage = Empty
    /\ SetBody(promise, future, last.a, Null, ValueOf(1)).res = "ok"

\* C17: swapping a promise with itself, or a future with itself, terminates
\* and leaves the object's slot, flags and link as they were.
C17_SelfSwapReturns ==
    [][(last'.op \in {"swap_promise", "swap_future"} /\ last'.a = last'.b)
          => /\ last'.res = "ok"
             /\ status' = "run"
             /\ promise' = promise
             /\ future' = future]_vars

\* a swap of an object with itself waits for the lock its own first guard holds
C17_SelfSwapHangs ==
    /\ status = "hang"
    /\ last.op \in {"swap_promise", "swap_future"}
    /\ last.a = last.b

C12_BrokenWaitEnds ==
    \A t \in Threads : \A u \in Threads \ {t} :
        (/\ Inside(t, "wait")
         /\ Finished(u, "destroy_promise", "ok")
         /\ ~is_ready(future, thr[t].obj))
        ~> (thr[t].op = "wait" /\ thr[t].pc = "done")

\* a thread polls in wait() on a future whose promise another thread has
\* finished destroying: the future is broken, not ready and unlinked
C12_PollsBroken ==
    \E t \in Threads : \E u \in Threads \ {t} :
        /\ Inside(t, "wait") /\ thr[t].pc = "poll" /\ thr[t].loop
        /\ Finished(u, "destroy_promise", "ok")
        /\ future[thr[t].obj].broken
        /\ future[thr[t].obj].promise = Null
        /\ ~is_ready(future, thr[t].obj)


\* thread t's first operation was the move construction of a future from f
\* and thread u's first operation was op on promise p, and both have returned
BothDone(t, f, u, op, p) ==
    /\ Finished(t, "move_future", "ok") /\ thr[t].obj = f /\ thr[t].n = 1
    /\ Finished(u, op, "ok") /\ thr[u].obj = p /\ thr[u].n = 1

\* C11: when one thread move-constructs future G from future F, linked to
\* promise P, while the other thread calls P.set_*(v), then in every
\* interleaving, once both calls have returned, G is ready with v, F holds no
\* link and no outcome, P is detached and holds no outcome, and no promise
\* points back at F.
C11_MoveAndSetCompose ==
    \A t \in Threads : \A u \in Threads \ {t} :
        (promise[1].alive = "live" /\ BothDone(t, 1, u, "set", 1))
        => LET G == thr[t].obj2
           IN  /\ future[G].alive = "live"
               /\ future[G].storage = thr[u].arg
               /\ is_ready(future, G)
               /\ future[G].promise = Null
               /\ future[1].promise = Null
               /\ empty(future, 1)
               /\ promise[1].detached
               /\ promise[1].storage = Empty
               /\ \A p \in PIds : PromiseGuardF(promise, p) # 1

\* the set was delivered to F before the move began, or to G after the move
\* repointed the promise, or the set waited on the mover's guard
C11_Witness ==
    \E t \in Threads : \E u \in Threads \ {t} :
        /\ BothDone(t, 1, u, "set", 1)
        /\ is_ready(future, thr[t].obj2)
        /\ promise[1].detached

\* C20: when one thread move-constructs future G from a linked future F that is
\* not ready while the other thread destroys the linked promise, no outcome
\* having been set, then in every interleaving, once both have returned, G has
\* the broken-promise flag and G.wait() fails with broken_promise.
C20_BrokenSignalCarried ==
    \A t \in Threads : \A u \in Threads \ {t} :
        (BothDone(t, 1, u, "destroy_promise", 1) /\ ~anyset)
        => /\ future[thr[t].obj2].broken
           /\ WaitOutcome(future, thr[t].obj2) = "broken_promise"

\* the mover read F's flag before the destructor set it: G has no promise and
\* no flag, and the flag stays behind in F
C20_SignalLost ==
    \E t \in Threads : \E u \in Threads \ {t} :
        /\ BothDone(t, 1, u, "destroy_promise", 1) /\ ~anyset
        /\ ~future[thr[t].obj2].broken
        /\ future[thr[t].obj2].promise = Null
        /\ WaitOutcome(future, thr[t].obj2) = "no_state"
        /\ future[1].broken


\* thread t is inside lock(), waiting for a lock that thread u holds
BlockedOn(t, u) ==
    /\ thr[t].pc \in {"lock", "lock2"}
    /\ LET o == IF thr[t].pc = "lock" THEN thr[t].obj ELSE thr[t].obj2
       IN  IF ViaPromise(thr[t].op) THEN plock[o] = u ELSE flock[o] = u

\* thread t is inside a swap
Swapping(t) == Inside(t, "swap_promise") \/ Inside(t, "swap_future")

\* C19: two swaps running concurrently on overlapping objects, such as
\* X.swap(Y) against Y.swap(X), or F1.swap(F2) against P2.swap(P1) on the
\* linked promises, never reach a state where each thread holds a lock the
\* other is blocked on.
C19_NoSwapDeadlock ==
    \A t \in Threads : \A u \in Threads \ {t} :
        ~(Swapping(t) /\ Swapping(u) /\ BlockedOn(t, u) /\ BlockedOn(u, t))

\* P1.swap(P2) against P2.swap(P1): each thread holds its first guard and is
\* inside the second guard's lock() on the promise the other thread holds
C19_Deadlocked ==
    \E t \in Threads : \E u \in Threads \ {t} :
        /\ Inside(t, "swap_promise") /\ Inside(u, "swap_promise")
        /\ thr[t].obj = thr[u].obj2 /\ thr[t].obj2 = thr[u].obj
        /\ BlockedOn(t, u) /\ BlockedOn(u, t)
        /\ ~ENABLED LifeRun(t) /\ ~ENABLED LifeRun(u)


\* thread t's first operation was the move construction of a promise from
\* promise 1 and thread u's first operation was the destruction of future 1,
\* and both have returned
MovedAndDestroyed(t, u) ==
    /\ Finished(t, "move_promise", "ok") /\ thr[t].obj = 1 /\ thr[t].n = 1
    /\ Finished(u, "destroy_future", "ok") /\ thr[u].obj = 1 /\ thr[u].n = 1

\* C21: when one thread move-constructs promise Q from promise P, linked to
\* future F, while the other thread destroys F, then in every interleaving, once
\* both have returned, Q is detached, Q.get_future() fails with
\* future_already_retrieved, Q.set_* fails with already_set, and Q's slot does
\* not point at F.
C21_DetachedCarried ==
    \A t \in Threads : \A u \in Threads \ {t} :
        MovedAndDestroyed(t, u)
        => LET Q == thr[t].obj2
           IN  /\ promise[Q].detached
               /\ GetFutureBody(promise, future, Q, PromiseGuardF(promise, Q),
                                FreshF).res = "future_already_retrieved"
               /\ \A o \in Outcomes :
                      SetBody(promise, future, Q, PromiseGuardF(promise, Q), o).res
                          = "already_set"
               /\ PromiseGuardF(promise, Q) # 1

\* the mover read P's flag before the future's destructor set it: Q is not
\* detached and has an empty slot, so that Q.get_future() and Q.set_* succeed
C21_StaleFlag ==
    \E t \in Threads : \E u \in Threads \ {t} :
        /\ MovedAndDestroyed(t, u)
        /\ ~promise[thr[t].obj2].detached
        /\ promise[thr[t].obj2].storage = Empty
        /\ promise[1].detached
        /\ GetFutureBody(promise, future, thr[t].obj2, Null, FreshF).res = "ok"
        /\ SetBody(promise, future, thr[t].obj2, Null, ValueOf(1)).res = "ok"


\* thread t takes the step that runs the body of a set_* which succeeds
SetSucceeds(t) ==
    /\ thr[t].pc = "held" /\ thr[t].op = "set"
    /\ thr'[t].pc = "unlock_p" /\ thr'[t].res = "ok"

\* C22: a set_* that succeeds on a promise linked to an empty future leaves, in
\* one step taken while the caller holds the promise's and the future's lock
\* and no other thread holds a guard on either, the outcome in the future's
\* slot, the future's back-pointer null, the promise's slot empty and the
\* promise detached; a set_* that succeeds on an unlinked, non-detached promise
\* stores the outcome in the promise's own slot under the promise's lock and
\* leaves the promise non-detached.  Nothing else changes.
C22_SetInOneStep ==
    [][\A t \in Threads : SetSucceeds(t) =>
        LET p == thr[t].obj
            f == Slot(p)
        IN  /\ plock[p] = t
            /\ \A u \in Threads \ {t} : thr[u].gp # p
            /\ \A q \in PIds \ {p} : promise'[q] = promise[q]
            /\ IF f # Null
               THEN /\ empty(future, f) /\ thr[t].gf = f /\ flock[f] = t
                    /\ \A u \in Threads \ {t} : thr[u].gf # f
                    /\ future'[f].storage = thr[t].arg
                    /\ future'[f].promise = Null
                    /\ promise'[p].storage = Empty
                    /\ promise'[p].detached
                    /\ \A g \in FIds \ {f} : future'[g] = future[g]
               ELSE /\ ~promise[p].detached
                    /\ promise'[p].storage = thr[t].arg
                    /\ ~promise'[p].detached
                    /\ future' = future]_vars

\* one thread's set_* has delivered to the linked future while the other
\* thread's set_* has just stored into the unlinked promise's own slot
C22_Witness ==
    \E t \in Threads : \E u \in Threads \ {t} :
        /\ Finished(t, "set", "ok") /\ thr[t].obj = 1
        /\ future[1].storage = thr[t].arg /\ promise[1].detached
        /\ thr[u].op = "set" /\ thr[u].obj = 2 /\ thr[u].pc = "unlock_p"
        /\ thr[u].res = "ok"
        /\ promise[2].storage = thr[u].arg /\ ~promise[2].detached


\* thread t is about to release lock x of a promise (kind "p") or of a future
\* (kind "f"): a failed try_lock's unlock of the entry object, or unlock() of a
\* guard
Releasing(t, kind, x) ==
    \/ /\ thr[t].pc = "retry" /\ x = thr[t].obj
       /\ kind = IF ViaPromise(thr[t].op) THEN "p" ELSE "f"
    \/ /\ thr[t].pc = "retry2" /\ x = thr[t].obj2
       /\ kind = IF ViaPromise(thr[t].op) THEN "p" ELSE "f"
    \/ thr[t].pc = "unlock_p" /\ kind = "p" /\ x = thr[t].gp /\ x # Null
    \/ thr[t].pc = "unlock_f" /\ kind = "f" /\ x = thr[t].gf /\ x # Null
    \/ thr[t].pc = "unlock2" /\ kind = "p" /\ x = thr[t].gp2 /\ x # Null
    \/ thr[t].pc = "unlock2" /\ kind = "f" /\ x = thr[t].gf2 /\ x # Null

C24_FailedCallChangesNothing ==
    [][(\/ last'.op = "get_future" /\ last'.res = "future_already_retrieved"
        \/ last'.op = "set" /\ last'.res = "already_set")
       => promise' = promise /\ future' = future]_vars

\* a set_* has just failed on a promise that buffers an outcome, and
\* get_future() would fail on another promise, which is linked to a future
C24_Witness ==
    /\ last.op = "set" /\ last.res = "already_set"
    /\ promise[last.a].storage \in Outcomes
    /\ \E p \in PIds \ {last.a} :
           /\ Slot(p) # Null
           /\ Linked(p, Slot(p))
           /\ GetFutureBody(promise, future, p, Slot(p), Null).res
                  = "future_already_retrieved"


\* C25: in every state between operations, a live future that is linked to a
\* promise has an empty slot and broken_promise false, and a live future with
\* broken_promise true has an empty slot and no linked promise.
C25_LinkedCompletedBrokenExclusive ==
    \A f \in FIds : LiveF(f) =>
        /\ future[f].promise # Null => empty(future, f) /\ ~future[f].broken
        /\ future[f].broken => empty(future, f) /\ future[f].promise = Null


\* two futures have just been swapped: one is broken, the other is linked to
\* a promise that points back at it
C25_Witness ==
    /\ last.op = "swap_future" /\ last.res = "ok"
    /\ \E f \in FIds : \E g \in FIds \ {f} :
           /\ LiveF(f) /\ future[f].broken
           /\ LiveF(g) /\ future[g].promise # Null
           /\ Linked(future[g].promise, g)


\* the step just taken moved from, move-assigned, swapped or destroyed future f
OwnStep(f) ==
    /\ last'.op \in {"move_future", "assign_future", "swap_future", "destroy_future"}
    /\ f \in {last'.a, last'.b}

\* C26: a future that is ready with outcome x is ready with the same outcome x
\* after every step that does not move from, move-assign, swap or destroy that
\* future itself; in particular no set_*, move, move assignment, swap or
\* destruction of a promise changes the outcome of a completed future.
C26_OutcomeStable ==
    [][\A f \in FIds :
          (LiveF(f) /\ is_ready(future, f) /\ ~OwnStep(f))
          => /\ future'[f].alive = "live"
             /\ future'[f].storage = future[f].storage]_vars

\* a promise has just been destroyed, set again, swapped or moved from while a
\* completed future exists
C26_Witness ==
    /\ last.op \in {"set", "destroy_promise", "swap_promise", "move_promise",
                    "assign_promise"}
    /\ anyset
    /\ \E f \in FIds : LiveF(f) /\ future[f].storage \in Outcomes


\* the step just taken is p = std::move(o) on promises, p linked to the future
\* Slot(p), which is not ready
AssignsOverLinkedPromise(p, o) ==
    /\ last'.op = "assign_promise" /\ last'.res = "ok"
    /\ last'.a = p /\ last'.b = o
    /\ Slot(p) # Null /\ Linked(p, Slot(p)) /\ ~is_ready(future, Slot(p))

\* the step just taken is f = std::move(o) on futures, f linked to the promise
\* future[f].promise
AssignsOverLinkedFuture(f, o) ==
    /\ last'.op = "assign_future" /\ last'.res = "ok"
    /\ last'.a = f /\ last'.b = o
    /\ future[f].promise # Null /\ Linked(future[f].promise, f)

\* C27: move-assigning into a promise P that is linked to a future F which is
\* not ready breaks F (broken_promise set, back-pointer null) and makes P take
\* over the source's slot and link; move-assigning into a future F that is
\* linked to a promise P detaches P (slot cleared, detached set) and makes F
\* take over the source's slot, broken_promise flag and link.
C27_AssignReplacesLink ==
    [][/\ \A p, o \in PIds : AssignsOverLinkedPromise(p, o) =>
              /\ future'[Slot(p)].broken
              /\ future'[Slot(p)].promise = Null
              /\ promise'[p].storage = promise[o].storage
              /\ Slot(o) # Null => future'[Slot(o)].promise = p
       /\ \A f, o \in FIds : AssignsOverLinkedFuture(f, o) =>
              /\ promise'[future[f].promise].storage = Empty
              /\ promise'[future[f].promise].detached
              /\ future'[f].storage = future[o].storage
              /\ future'[f].broken = future[o].broken
              /\ future'[f].promise = future[o].promise
              /\ future[o].promise # Null
                 => promise'[future[o].promise].storage = Pointer(f)]_vars


\* a promise has just been move-assigned into, and the future that was linked
\* to it is not broken and still points at it, while the promise's slot, taken
\* from the source, does not point back
C27_NotBroken ==
    /\ last.op = "assign_promise" /\ last.res = "ok"
    /\ \E f \in FIds :
           /\ LiveF(f) /\ future[f].promise = last.a
           /\ ~future[f].broken /\ empty(future, f)
           /\ Slot(last.a) # f


WaitsOnReady(t) ==
    /\ thr[t].op = "wait" /\ thr[t].pc = "fast"
    /\ is_ready(future, thr[t].obj)

\* C29: a wait() on a future that is already ready can take its step whoever
\* holds the future's lock, and that step ends the call normally without
\* changing any lock: the caller acquires no lock and the call fails neither
\* with broken_promise nor with no_state.
C29_ReadyWaitTakesNoLock ==
    [][\A t \in Threads : WaitsOnReady(t) =>
          /\ HeldBy(t) = {}
          /\ ENABLED WaitFast(t)
          /\ thr'[t] # thr[t] =>
                 /\ thr'[t].pc = "done" /\ thr'[t].res = "ok"
                 /\ plock' = plock /\ flock' = flock]_vars

\* a wait() on a ready future has returned while the other thread holds the
\* future's lock in a guard
C29_Witness ==
    \E t \in Threads : \E u \in Threads \ {t} :
        /\ Finished(t, "wait", "ok") /\ ~thr[t].loop
        /\ is_ready(future, thr[t].obj)
        /\ flock[thr[t].obj] = u
        /\ thr[u].op = "guard_f" /\ thr[u].pc = "held"
        /\ thr[u].n = 1


\* a step of thread t that completes the construction of a lock_guard: the
\* guard of the operation, or the second guard h2 of swap
GuardCompletes(t) == thr[t].pc = "try" /\ thr'[t].pc \notin {"try", "retry"}
SecondGuardCompletes(t) == thr[t].pc = "try2" /\ thr'[t].pc = "held"

\* what a guard of thread t entered via promise p that recorded (gp, gf) holds
HoldsViaPromise(t, p, gp, gf) ==
    /\ gp = p /\ plock[p] = t
    /\ IF promise[p].storage.type = "pointer"
       THEN /\ gf = promise[p].storage.v
            /\ flock[gf] = t
            /\ future[gf].promise = p
       ELSE gf = Null

\* what a guard of thread t entered via future f that recorded (gp, gf) holds
HoldsViaFuture(t, f, gp, gf) ==
    /\ gf = f /\ flock[f] = t
    /\ IF future[f].promise # Null
       THEN /\ gp = future[f].promise
            /\ plock[gp] = t
            /\ promise[gp].storage = Pointer(f)
       ELSE gp = Null

\* C30: when the construction of a lock guard completes, entered via a promise
\* or via a future, then if the entry object is linked the guard holds the
\* locks of the entry object and of its peer, and the peer it recorded is the
\* entry object's current peer (the promise's slot points at the recorded
\* future, whose back-pointer is the recorded promise); if the entry object is
\* not linked the guard holds the entry object's lock, took no other lock and
\* recorded no peer.
C30_GuardHoldsPair ==
    [][\A t \in Threads :
        /\ GuardCompletes(t) =>
            /\ IF ViaPromise(thr[t].op)
               THEN HoldsViaPromise(t, thr[t].obj, thr[t].gp, thr[t].gf)'
               ELSE HoldsViaFuture(t, thr[t].obj, thr[t].gp, thr[t].gf)'
            /\ (thr'[t].gp = Null \/ thr'[t].gf = Null)
                  => plock' = plock /\ flock' = flock
        /\ SecondGuardCompletes(t) =>
            /\ IF ViaPromise(thr[t].op)
               THEN HoldsViaPromise(t, thr[t].obj2, thr[t].gp2, thr[t].gf2)'
               ELSE HoldsViaFuture(t, thr[t].obj2, thr[t].gp2, thr[t].gf2)'
            /\ (thr'[t].gp2 = Null \/ thr'[t].gf2 = Null)
                  => plock' = plock /\ flock' = flock]_vars


\* the failing case of C30: a guard entered via a future has completed holding
\* the lock of the promise the future's back-pointer names, and that promise's
\* slot does not point at the future
C30_RecordsStalePeer ==
    \E t \in Threads :
        /\ thr[t].op = "swap_future" /\ thr[t].pc = "lock2"
        /\ thr[t].gf = thr[t].obj /\ thr[t].gp # Null
        /\ plock[thr[t].gp] = t /\ flock[thr[t].gf] = t
        /\ promise[thr[t].gp].storage # Pointer(thr[t].gf)

====
